---- MODULE Spec2Model ----
(***************************************************************************)
(* Model of tsqlapp-navigator/scripts/parse_url.py: parse_tsqlapp_url      *)
(* (the URL decoder) and generate_queries (the query deriver), run in the  *)
(* order main() runs them.                                                 *)
(*                                                                         *)
(* A Python str is modelled as a sequence of one-character strings, so     *)
(* that splitting, stripping, percent-decoding and int() are computed      *)
(* character by character the way the library computes them.  None is the  *)
(* empty sequence and a present value v is <<v>>.                          *)
(***************************************************************************)
EXTENDS Integers, Sequences, FiniteSets, TLC

VARIABLES
    in_segs,    \* the path segments the URL was written from (ghost input)
    in_params,  \* the raw <<key, value>> query pairs it was written from (ghost input)
    orig,       \* the ParsedURL the URL was encoded from (<<>> when written by hand)
    url,        \* sys.argv[1]
    pc,         \* position in main(): "start", "parsed", "failed", "done"
    parsed,     \* the dict returned by parse_tsqlapp_url, or the error raised
    queries     \* the list returned by generate_queries

vars == <<in_segs, in_params, orig, url, pc, parsed, queries>>

None == <<>>
Some(v) == <<v>>
IsSet(o) == o # <<>>
Val(o) == o[1]

(***************************************************************************)
(* Characters                                                              *)
(***************************************************************************)
\* The printable ASCII characters, code 32 to 126, in code order (the
\* backslash, code 92, and the backtick, code 96, are written as tokens).
Printable ==
    <<" ", "!", "\"", "#", "$", "%", "&", "'", "(", ")", "*", "+", ",", "-", ".", "/",
      "0", "1", "2", "3", "4", "5", "6", "7", "8", "9", ":", ";", "<", "=", ">", "?",
      "@", "A", "B", "C", "D", "E", "F", "G", "H", "I", "J", "K", "L", "M", "N", "O",
      "P", "Q", "R", "S", "T", "U", "V", "W", "X", "Y", "Z", "[", "<bslash>", "]", "^", "_",
      "<btick>", "a", "b", "c", "d", "e", "f", "g", "h", "i", "j", "k", "l", "m", "n", "o",
      "p", "q", "r", "s", "t", "u", "v", "w", "x", "y", "z", "{", "|", "}", "~">>

\* chr(n) for a printable ASCII code; any other byte stands for the
\* replacement character (the inputs below never produce one).
Chr(n) == IF n >= 32 /\ n <= 126 THEN Printable[n - 31] ELSE "<U+FFFD>"

\* ord(c) of a printable ASCII character.
Ord(c) == 31 + (CHOOSE i \in 1..Len(Printable) : Printable[i] = c)

IsDigit(c) == c \in {"0", "1", "2", "3", "4", "5", "6", "7", "8", "9"}
IsLower(c) == Ord(c) >= 97 /\ Ord(c) <= 122
IsUpper(c) == Ord(c) >= 65 /\ Ord(c) <= 90
IsAlpha(c) == IsLower(c) \/ IsUpper(c)
DigitVal(c) == Ord(c) - 48

IsHex(c) == IsDigit(c) \/ c \in {"a", "b", "c", "d", "e", "f", "A", "B", "C", "D", "E", "F"}
HexVal(c) ==
    IF IsDigit(c) THEN DigitVal(c)
    ELSE IF IsLower(c) THEN Ord(c) - 87
    ELSE Ord(c) - 55

\* str.isspace() on the ASCII range.
IsSpace(c) == c \in {" ", "\t", "\n", "\r"}

(***************************************************************************)
(* str methods                                                             *)
(***************************************************************************)
Drop(s, n) == SubSeq(s, n + 1, Len(s))
Take(s, n) == SubSeq(s, 1, n)

\* 1-based index of the first c in s, 0 when there is none (str.find + 1).
find(s, c) ==
    IF \E i \in 1..Len(s) : s[i] = c
    THEN CHOOSE i \in 1..Len(s) : s[i] = c /\ \A j \in 1..(i - 1) : s[j] # c
    ELSE 0

\* s.split(sep) for a one-character separator.
RECURSIVE split(_, _)
split(s, sep) ==
    LET i == find(s, sep)
    IN  IF i = 0 THEN <<s>>
        ELSE <<Take(s, i - 1)>> \o split(Drop(s, i), sep)

\* s.split(sep, 1)
split1(s, sep) ==
    LET i == find(s, sep)
    IN  IF i = 0 THEN <<s>> ELSE <<Take(s, i - 1), Drop(s, i)>>

RECURSIVE lstrip(_)
lstrip(s) == IF s # <<>> /\ IsSpace(s[1]) THEN lstrip(Tail(s)) ELSE s

RECURSIVE rstrip(_)
rstrip(s) == IF s # <<>> /\ IsSpace(s[Len(s)]) THEN rstrip(Take(s, Len(s) - 1)) ELSE s

strip(s) == rstrip(lstrip(s))

endswith(s, c) == s # <<>> /\ s[Len(s)] = c

\* s.replace(a, b) for one-character a and b.
replace(s, a, b) == [i \in 1..Len(s) |-> IF s[i] = a THEN b ELSE s[i]]

RECURSIVE join(_, _)
join(parts, sep) ==
    IF parts = <<>> THEN <<>>
    ELSE IF Len(parts) = 1 THEN parts[1]
    ELSE parts[1] \o sep \o join(Tail(parts), sep)

\* [p for p in parts if p]
RECURSIVE nonEmpty(_)
nonEmpty(parts) ==
    IF parts = <<>> THEN <<>>
    ELSE IF parts[1] = <<>> THEN nonEmpty(Tail(parts))
    ELSE <<parts[1]>> \o nonEmpty(Tail(parts))

(***************************************************************************)
(* int(s) and str(n)                                                       *)
(***************************************************************************)
\* The body of a decimal literal after the sign: digits, with single
\* underscores allowed between digits only.
IsIntBody(b) ==
    /\ b # <<>>
    /\ \A i \in 1..Len(b) : IsDigit(b[i]) \/ b[i] = "_"
    /\ IsDigit(b[1]) /\ IsDigit(b[Len(b)])
    /\ \A i \in 1..(Len(b) - 1) : ~(b[i] = "_" /\ b[i + 1] = "_")

Unsigned(t) == IF t # <<>> /\ t[1] \in {"+", "-"} THEN Tail(t) ELSE t

\* TRUE when int(s) returns, FALSE when it raises ValueError.
IntOK(s) == IsIntBody(Unsigned(strip(s)))

RECURSIVE DigitsValue(_, _)
DigitsValue(b, acc) ==
    IF b = <<>> THEN acc
    ELSE IF b[1] = "_" THEN DigitsValue(Tail(b), acc)
    ELSE DigitsValue(Tail(b), 10 * acc + DigitVal(b[1]))

\* int(s), for s with IntOK(s).
int(s) ==
    LET t == strip(s)
        v == DigitsValue(Unsigned(t), 0)
    IN  IF t[1] = "-" THEN 0 - v ELSE v

RECURSIVE NatStr(_)
NatStr(n) ==
    IF n < 10 THEN <<Chr(48 + n)>>
    ELSE NatStr(n \div 10) \o <<Chr(48 + (n % 10))>>

\* str(n), as an f-string formats an int.
str(n) == IF n < 0 THEN <<"-">> \o NatStr(0 - n) ELSE NatStr(n)

(***************************************************************************)
(* urllib.parse                                                            *)
(***************************************************************************)
\* unquote(s): every %XX with two hex digits becomes the character it
\* encodes; a '%' not followed by two hex digits is kept; the decoded
\* text is not scanned again.
RECURSIVE unquote(_)
unquote(s) ==
    IF s = <<>> THEN <<>>
    ELSE IF s[1] = "%" /\ Len(s) >= 3 /\ IsHex(s[2]) /\ IsHex(s[3])
         THEN <<Chr(16 * HexVal(s[2]) + HexVal(s[3]))>> \o unquote(Drop(s, 3))
         ELSE <<s[1]>> \o unquote(Tail(s))

\* 1-based index of the first character of s that is in cs, Len(s)+1 when none.
firstOf(s, cs) ==
    IF \E i \in 1..Len(s) : s[i] \in cs
    THEN CHOOSE i \in 1..Len(s) : s[i] \in cs /\ \A j \in 1..(i - 1) : s[j] \notin cs
    ELSE Len(s) + 1

\* urlparse(url): scheme, netloc, path, query, fragment.  (Path parameters
\* after ';' and the stripping of control characters are left out: no URL
\* below holds a ';' or a control character.)
urlparse(u) ==
    LET c == find(u, ":")
        hasScheme == c > 1 /\ \A i \in 1..(c - 1) : IsAlpha(u[i])
        rest0 == IF hasScheme THEN Drop(u, c) ELSE u
        hasNet == Len(rest0) >= 2 /\ rest0[1] = "/" /\ rest0[2] = "/"
        after == Drop(rest0, 2)
        d == firstOf(after, {"/", "?", "#"})
        rest1 == IF hasNet THEN Drop(after, d - 1) ELSE rest0
        noFrag == split1(rest1, "#")
        pq == split1(noFrag[1], "?")
    IN  [scheme |-> IF hasScheme THEN Take(u, c - 1) ELSE <<>>,
         netloc |-> IF hasNet THEN Take(after, d - 1) ELSE <<>>,
         path |-> pq[1],
         query |-> IF Len(pq) = 2 THEN pq[2] ELSE <<>>,
         fragment |-> IF Len(noFrag) = 2 THEN noFrag[2] ELSE <<>>]

\* parse_qsl(qs) with keep_blank_values=False, strict_parsing=False: the
\* decoded <<name, value>> pairs in order, blank values dropped.
RECURSIVE qsl(_)
qsl(fields) ==
    IF fields = <<>> THEN <<>>
    ELSE LET nv == split1(fields[1], "=")
         IN  IF Len(nv) = 2 /\ nv[2] # <<>>
             THEN << <<unquote(replace(nv[1], "+", " ")),
                       unquote(replace(nv[2], "+", " "))>> >> \o qsl(Tail(fields))
             ELSE qsl(Tail(fields))

parse_qsl(qs) == IF qs = <<>> THEN <<>> ELSE qsl(split(qs, "&"))

\* 'key' in parse_qs(qs)
HasKey(q, key) == \E i \in 1..Len(q) : q[i][1] = key

\* parse_qs(qs)[key][0]
First(q, key) ==
    q[CHOOSE i \in 1..Len(q) : q[i][1] = key /\ \A j \in 1..(i - 1) : q[j][1] # key][2]

(***************************************************************************)
(* parse_tsqlapp_url                                                       *)
(***************************************************************************)
K_ord == <<"o", "r", "d">>
K_red == <<"r", "e", "d">>
K_id == <<"i", "d">>

\* Mutant of path_parts: the empty segments are kept.
path_parts_KeepEmpty(u) == split(urlparse(u).path, "/")

\* path_parts = [p for p in parsed.path.split('/') if p]
path_parts(u) == nonEmpty(split(urlparse(u).path, "/"))

\* query = parse_qs(parsed.query)
query_of(u) == parse_qsl(urlparse(u).query)

\* if len(path_parts) >= 1
HasCard(parts) == Len(parts) >= 1

\* Mutant of IsChildPath: any path of three or more segments.
IsChildPath_AtLeast3(parts) == Len(parts) >= 3

\* if len(path_parts) == 3
IsChildPath(parts) == Len(parts) = 3

\* The text handed to int() for one ord field: the stripped field, without
\* its last character when that is 'd'.
FieldDigits(field) ==
    LET f == strip(field)
    IN  IF endswith(f, "d") THEN Take(f, Len(f) - 1) ELSE f

\* Mutant of FieldDirection: the suffix is looked for before stripping.
FieldDirection_Unstripped(field) == IF endswith(field, "d") THEN "DESC" ELSE "ASC"

FieldDirection(field) == IF endswith(strip(field), "d") THEN "DESC" ELSE "ASC"

\* One pass of the loop over ord_value.split(',').
SortField(field) ==
    [field_id |-> int(FieldDigits(field)), direction |-> FieldDirection(field)]

\* The fields of the ord value, empty when 'ord' is not in query.
ord_fields(q) == IF HasKey(q, K_ord) THEN split(First(q, K_ord), ",") ELSE <<>>

sort_fields(q) == [i \in 1..Len(ord_fields(q)) |-> SortField(ord_fields(q)[i])]

\* result['filter'] = unquote(query['red'][0])
filter_of(q) == IF HasKey(q, K_red) THEN Some(unquote(First(q, K_red))) ELSE None

\* result['selected_id'] = int(query['id'][0])
selected_id_of(q) == IF HasKey(q, K_id) THEN Some(int(First(q, K_id))) ELSE None

\* The ValueError that escapes parse_tsqlapp_url, tagged with the
\* assignment that raised it.
Raised(at, token) == [ok |-> FALSE, at |-> at, token |-> token]

\* The first ord field whose int() raises, 0 when none does.
BadField(fs) ==
    IF \E i \in 1..Len(fs) : ~IntOK(FieldDigits(fs[i]))
    THEN CHOOSE i \in 1..Len(fs) :
            /\ ~IntOK(FieldDigits(fs[i]))
            /\ \A j \in 1..(i - 1) : IntOK(FieldDigits(fs[j]))
    ELSE 0

parse_tsqlapp_url(u) ==
    LET parts == path_parts(u)
        q == query_of(u)
        fs == ord_fields(q)
    IN  IF IsChildPath(parts) /\ ~IntOK(parts[2])
        THEN Raised("parent_id", parts[2])
        ELSE IF BadField(fs) # 0
        THEN Raised("sort_fields", FieldDigits(fs[BadField(fs)]))
        ELSE IF HasKey(q, K_id) /\ ~IntOK(First(q, K_id))
        THEN Raised("selected_id", First(q, K_id))
        ELSE [ok |-> TRUE,
              domain |-> urlparse(u).netloc,
              card |-> IF HasCard(parts) THEN Some(parts[1]) ELSE None,
              parent_id |-> IF IsChildPath(parts) THEN Some(int(parts[2])) ELSE None,
              child_card |-> IF IsChildPath(parts) THEN Some(parts[3]) ELSE None,
              sort_fields |-> sort_fields(q),
              filter |-> filter_of(q),
              selected_id |-> selected_id_of(q)]

(***************************************************************************)
(* generate_queries                                                        *)
(***************************************************************************)
\* Python truth of an optional str and of an optional int.
TruthyStr(o) == IsSet(o) /\ Val(o) # <<>>
TruthyInt(o) == IsSet(o) /\ Val(o) # 0

\* Mutant of card_name: the operands of 'or' swapped.
card_name_PreferCard(p) == IF TruthyStr(p.card) THEN p.card ELSE p.child_card

\* card_name = parsed['child_card'] or parsed['card']
card_name(p) == IF TruthyStr(p.child_card) THEN p.child_card ELSE p.card

CardQuery(name) ==
    [description |-> <<"Get card '">> \o name \o <<"'">>,
     sql |-> <<"SELECT id, name, tablename, basetable, reducer FROM api_card WHERE name = N'">>
             \o name \o <<"'">>]

\* Mutant of SortQuery: the direction is left out of the description.
SortQuery_NoDirection(sf) ==
    [description |-> <<"Get sort field ">> \o str(sf.field_id),
     sql |-> <<"SELECT id, name, card_id FROM api_card_fields WHERE id = ">>
             \o str(sf.field_id)]

SortQuery(sf) ==
    [description |-> <<"Get sort field ">> \o str(sf.field_id) \o <<" (", sf.direction, ")">>,
     sql |-> <<"SELECT id, name, card_id FROM api_card_fields WHERE id = ">>
             \o str(sf.field_id)]

FilterQuery(name) ==
    [description |-> <<"Get filter '">> \o name \o <<"'">>,
     sql |-> <<"SELECT id, name, sql FROM api_card_actions WHERE card_id = @card_id AND name = N'">>
             \o name \o <<"' AND action = 'reducer'">>]

SelectedQuery(id) ==
    [description |-> <<"Get selected record ">> \o str(id),
     sql |-> <<"SELECT * FROM {tablename} WHERE id = ">> \o str(id)]

ParentQuery(id) ==
    [description |-> <<"Get parent record ">> \o str(id),
     sql |-> <<"SELECT * FROM {parent_tablename} WHERE id = ">> \o str(id)]

\* if card_name: / if parsed['filter']: / if parsed['selected_id']: /
\* if parsed['parent_id']:
EmitCard(p) == TruthyStr(card_name(p))
EmitFilter(p) == TruthyStr(p.filter)
EmitSelected(p) == TruthyInt(p.selected_id)
EmitParent(p) == TruthyInt(p.parent_id)

generate_queries(p) ==
    (IF EmitCard(p) THEN <<CardQuery(Val(card_name(p)))>> ELSE <<>>)
    \o [i \in 1..Len(p.sort_fields) |-> SortQuery(p.sort_fields[i])]
    \o (IF EmitFilter(p) THEN <<FilterQuery(Val(p.filter))>> ELSE <<>>)
    \o (IF EmitSelected(p) THEN <<SelectedQuery(Val(p.selected_id))>> ELSE <<>>)
    \o (IF EmitParent(p) THEN <<ParentQuery(Val(p.parent_id))>> ELSE <<>>)

(***************************************************************************)
(* The URL format of the module docstring:                                 *)
(*   https://domain/card?ord=123d&red=Filter&id=456                        *)
(*   https://domain/parent/789/child?ord=123,456                           *)
(***************************************************************************)
Origin == <<"h", "t", "t", "p", "s", ":", "/", "/", "h", "o", "s", "t">>

RECURSIVE PathText(_)
PathText(segs) == IF segs = <<>> THEN <<>> ELSE <<"/">> \o segs[1] \o PathText(Tail(segs))

QueryText(params) ==
    join([i \in 1..Len(params) |-> params[i][1] \o <<"=">> \o params[i][2]], <<"&">>)

\* The URL with the given path segments and raw key=value pairs.
UrlText(segs, params) ==
    Origin \o PathText(segs) \o (IF params = <<>> THEN <<>> ELSE <<"?">> \o QueryText(params))

(***************************************************************************)
(* Inputs                                                                  *)
(***************************************************************************)
MaxSegs == 4      \* path segments written into a URL
MaxParams == 2    \* key=value pairs written into a query string
MaxTokens == 2    \* comma-separated tokens written into one ord value
MaxSort == 2      \* sort fields of an encoded ParsedURL

\* All sequences over S of length at most n.
SeqUpTo(S, n) == UNION {[1..k -> S] : k \in 0..n}

\* Segment texts: empty (a doubled or trailing slash), names, numbers.
SegVals ==
    {<<>>,
     <<"a">>,
     <<"b">>,
     <<"1", "2">>,
     <<"0">>,
     <<"1", "_", "0">>}

\* ord tokens: ascending, descending, the same field both ways, a
\* descending token followed by an encoded space, a non-number, nothing.
TokVals ==
    {<<"1", "0">>,
     <<"2", "0", "d">>,
     <<"1", "0", "d">>,
     <<"3", "d", "+">>,
     <<"x">>,
     <<>>}

OrdVals == {join(ts, <<",">>) : ts \in SeqUpTo(TokVals, MaxTokens) \ {<<>>}}

RedVals ==
    {<<"F">>,
     <<"D", "r", "a", "f", "t", "%", "2", "0", "%", "2", "F", "%", "2", "0", "E", "m", "p", "t", "y">>,
     <<"a", "%", "2", "5", "4", "1">>,
     <<"a", "+", "b">>,
     <<"%", "2", "B">>,
     <<>>}

IdVals ==
    {<<"5">>,
     <<"0">>,
     <<"a", "b", "c">>,
     <<"-", "5">>,
     <<"+", "5">>,
     <<"1", "_", "0">>,
     <<>>}

Pair(k, v) == <<k, v>>

CorePairs ==
    {Pair(K_ord, v) : v \in {<<"1", "0", ",", "2", "0", "d", ",", "3", "0">>, <<"7", ",", "7">>, <<"9", "d">>, <<>>}}
    \cup {Pair(K_red, v) : v \in RedVals}
    \cup {Pair(K_id, v) : v \in IdVals}

SimplePaths ==
    {<<<<"a">>>>,
     <<<<"a">>, <<"1", "2">>, <<"b">>>>,
     <<>>}

SimpleQueries ==
    {<<>>,
     <<Pair(K_ord, <<"1", "0", "d">>), Pair(K_red, <<"F">>), Pair(K_id, <<"5">>)>>,
     <<Pair(K_id, <<"a", "b", "c">>)>>}

\* Hand-written URLs: every short path with a few queries, a few paths
\* with every short query, and a few paths with every short ord list.
Inputs ==
    (SeqUpTo(SegVals, MaxSegs) \X SimpleQueries)
    \cup (SimplePaths \X SeqUpTo(CorePairs, MaxParams))
    \cup (SimplePaths \X {<<Pair(K_ord, v)>> : v \in OrdVals})

(***************************************************************************)
(* main()                                                                  *)
(***************************************************************************)
Init ==
    /\ \E i \in Inputs :
        /\ in_segs = i[1]
        /\ in_params = i[2]
        /\ url = UrlText(i[1], i[2])
    /\ orig = None
    /\ pc = "start"
    /\ parsed = None
    /\ queries = <<>>

\* parsed = parse_tsqlapp_url(url); an exception ends main() in the
\* except block.
Parse ==
    /\ pc = "start"
    /\ parsed' = parse_tsqlapp_url(url)
    /\ pc' = IF parsed'.ok THEN "parsed" ELSE "failed"
    /\ UNCHANGED <<in_segs, in_params, orig, url, queries>>

\* queries = generate_queries(parsed)
Generate ==
    /\ pc = "parsed"
    /\ queries' = generate_queries(parsed)
    /\ pc' = "done"
    /\ UNCHANGED <<in_segs, in_params, orig, url, parsed>>

Next == Parse \/ Generate

Spec == Init /\ [][Next]_vars

(***************************************************************************)
(* URLs encoded from a ParsedURL, in the same format: the card (or         *)
(* parent/id/child) as the path, then ord, red and id, the filter          *)
(* percent-encoded, a descending sort field written with the suffix 'd'.   *)
(***************************************************************************)
HexDigits == <<"0", "1", "2", "3", "4", "5", "6", "7", "8", "9", "A", "B", "C", "D", "E", "F">>

IsUnreserved(c) == IsAlpha(c) \/ IsDigit(c) \/ c \in {"_", ".", "-", "~"}

\* quote(s, safe=''): every character that is not unreserved as %XX.
RECURSIVE quote(_)
quote(s) ==
    IF s = <<>> THEN <<>>
    ELSE (IF IsUnreserved(s[1]) THEN <<s[1]>>
          ELSE <<"%", HexDigits[(Ord(s[1]) \div 16) + 1], HexDigits[(Ord(s[1]) % 16) + 1]>>)
         \o quote(Tail(s))

EncodeField(sf) == str(sf.field_id) \o (IF sf.direction = "DESC" THEN <<"d">> ELSE <<>>)

EncodeSegs(p) ==
    IF IsSet(p.parent_id)
    THEN <<Val(p.card), str(Val(p.parent_id)), Val(p.child_card)>>
    ELSE <<Val(p.card)>>

EncodeParams(p) ==
    (IF p.sort_fields = <<>> THEN <<>>
     ELSE <<Pair(K_ord, join([i \in 1..Len(p.sort_fields) |-> EncodeField(p.sort_fields[i])],
                             <<",">>))>>)
    \o (IF IsSet(p.filter) THEN <<Pair(K_red, quote(Val(p.filter)))>> ELSE <<>>)
    \o (IF IsSet(p.selected_id) THEN <<Pair(K_id, str(Val(p.selected_id)))>> ELSE <<>>)

SortEntries == [field_id : {10, 20}, direction : {"ASC", "DESC"}]

FilterNames ==
    {<<"F">>,
     <<"D", "r", "a", "f", "t", " ", "/", " ", "E", "m", "p", "t", "y">>,
     <<"a", "+", "b">>,
     <<"a", "%", "4", "1">>,
     <<"1", "0", "0", "%">>}

ParsedURLs ==
    [ok : {TRUE},
     domain : {<<"h", "o", "s", "t">>},
     card : {Some(<<"a">>), Some(<<"a", "b">>)},
     parent_id : {None, Some(0), Some(12)},
     child_card : {None, Some(<<"b">>)},
     sort_fields : SeqUpTo(SortEntries, MaxSort),
     filter : {None} \cup {Some(f) : f \in FilterNames},
     selected_id : {None, Some(0), Some(5), Some(0 - 5)}]

InitRT ==
    /\ \E p \in ParsedURLs :
        /\ IsSet(p.parent_id) <=> IsSet(p.child_card)
        /\ orig = Some(p)
        /\ in_segs = EncodeSegs(p)
        /\ in_params = EncodeParams(p)
        /\ url = UrlText(EncodeSegs(p), EncodeParams(p))
    /\ pc = "start"
    /\ parsed = None
    /\ queries = <<>>

SpecRT == InitRT /\ [][Next]_vars

(***************************************************************************)
(* Properties                                                              *)
(***************************************************************************)
\* What the URL was written from, read off the ghost inputs.
Segs == SelectSeq(in_segs, LAMBDA x : x # <<>>)
Given(key) == SelectSeq(in_params, LAMBDA kv : kv[1] = key)
NonBlank(key) == SelectSeq(in_params, LAMBDA kv : kv[1] = key /\ kv[2] # <<>>)
\* A raw query value with '+' and percent-escapes decoded once.
DecodedOnce(raw) == unquote(replace(raw, "+", " "))
StrictlyNumeric(t) == t # <<>> /\ \A i \in 1..Len(t) : IsDigit(t[i])
NumericPart(tok) == IF endswith(tok, "d") THEN Take(tok, Len(tok) - 1) ELSE tok

Returned == pc \in {"parsed", "done"}

\* The kind of a statement, read off the head of its description.
Kind(q) == q.description[1]
KindCard == "Get card '"
KindSort == "Get sort field "
KindFilter == "Get filter '"
KindSelected == "Get selected record "
KindParent == "Get parent record "
Rank(q) ==
    CASE Kind(q) = KindCard -> 1
      [] Kind(q) = KindSort -> 2
      [] Kind(q) = KindFilter -> 3
      [] Kind(q) = KindSelected -> 4
      [] Kind(q) = KindParent -> 5
Count(kind) == Cardinality({i \in 1..Len(queries) : Kind(queries[i]) = kind})
KindsOf(qs) == [i \in 1..Len(qs) |-> Kind(qs[i])]

\* C1: generate_queries emits card, then one sort-field statement per
\* sortFields entry in stored order, then filter, selected-record and
\* parent-record, never a later kind before an earlier one; and a ParsedURL
\* with card, one sort field, filter, selectedId and parentId all set gives
\* exactly those 5 statements in that order.
C1_FixedOrder ==
    pc = "done" =>
        /\ \A i, j \in 1..Len(queries) : i < j => Rank(queries[i]) <= Rank(queries[j])
        /\ Count(KindSort) = Len(parsed.sort_fields)
        /\ \A i \in 1..Len(parsed.sort_fields) :
             queries[Count(KindCard) + i].description
               = <<KindSort>> \o str(parsed.sort_fields[i].field_id)
                 \o <<" (", parsed.sort_fields[i].direction, ")">>
        /\ ( /\ IsSet(parsed.card) /\ Len(parsed.sort_fields) = 1 /\ IsSet(parsed.filter)
             /\ IsSet(parsed.selected_id) /\ IsSet(parsed.parent_id) )
           => KindsOf(queries) = <<KindCard, KindSort, KindFilter, KindSelected, KindParent>>

\* C2: a statement is left out only when its triggering field is absent:
\* the filter, selected-record and parent-record statements are present
\* exactly when filter, selectedId and parentId are set, whatever integer
\* an id is; with only card set the output is the one card statement.
C2_OmittedOnlyWhenAbsent ==
    pc = "done" =>
        /\ Count(KindFilter) > 0 <=> IsSet(parsed.filter)
        /\ Count(KindSelected) > 0 <=> IsSet(parsed.selected_id)
        /\ Count(KindParent) > 0 <=> IsSet(parsed.parent_id)
        /\ ( /\ IsSet(parsed.card) /\ parsed.sort_fields = <<>> /\ ~IsSet(parsed.filter)
             /\ ~IsSet(parsed.selected_id) /\ ~IsSet(parsed.parent_id) )
           => KindsOf(queries) = <<KindCard>>

\* C3 as written: the returned sequence holds no two equal statements,
\* also when sortFields holds the same field id more than once.
C3_NoDuplicates ==
    pc = "done" => \A i, j \in 1..Len(queries) : i < j => queries[i] # queries[j]

\* C3 as amended: two statements at different positions are equal exactly
\* when both are sort-field statements of equal sortFields entries (same
\* field id and same direction); every other pair of statements differs.
SortIndex(i) == i - Count(KindCard)
C3_DuplicatesOnlyFromEqualSortFields ==
    pc = "done" =>
        \A i, j \in 1..Len(queries) : i < j =>
            ( queries[i] = queries[j]
              <=> /\ Kind(queries[i]) = KindSort
                  /\ Kind(queries[j]) = KindSort
                  /\ parsed.sort_fields[SortIndex(i)] = parsed.sort_fields[SortIndex(j)] )

C3_Witness ==
    /\ pc = "done"
    /\ \E i, j \in 1..Len(queries) : i < j /\ queries[i] = queries[j]
    /\ Count(KindCard) = 1

\* C4: every integer field of an accepted URL was parsed from decimal
\* digits only; when the id value, the middle segment of a three-segment
\* path or the numeric part of an ord token is not strictly numeric
\* (empty, signed, with spaces, underscores or letters) decode raises and
\* returns nothing.
C4_StrictlyNumericOrError ==
    pc # "start" =>
        /\ (Len(Segs) = 3 /\ ~StrictlyNumeric(Segs[2])) => pc = "failed"
        /\ (Given(K_id) # <<>> /\ ~StrictlyNumeric(DecodedOnce(Given(K_id)[1][2])))
           => pc = "failed"
        /\ (Given(K_ord) # <<>>
            /\ \E t \in 1..Len(split(DecodedOnce(Given(K_ord)[1][2]), ",")) :
                 ~StrictlyNumeric(NumericPart(split(DecodedOnce(Given(K_ord)[1][2]), ",")[t])))
           => pc = "failed"

\* C5: a ParsedURL encoded as a URL (filter percent-encoded, 'd' for DESC)
\* and decoded again is the ParsedURL it started from.
C5_RoundTrip == (pc # "start" /\ IsSet(orig)) => parsed = Val(orig)

\* C6 as written: with ord present, sortFields has one entry per
\* comma-separated token of its first occurrence, in token order; a token
\* ending in 'd' gives the token without it, DESC; any other token gives
\* the whole token, ASC; without ord sortFields is empty.
OrdTokensAsWritten == split(DecodedOnce(Given(K_ord)[1][2]), ",")
OrdTokens == split(DecodedOnce(NonBlank(K_ord)[1][2]), ",")
C7_ParentAndChildTogether ==
    Returned =>
        /\ IsSet(parsed.parent_id) <=> IsSet(parsed.child_card)
        /\ IsSet(parsed.parent_id) <=> Len(Segs) = 3
        /\ Len(Segs) = 3 =>
            /\ parsed.card = Some(Segs[1])
            /\ parsed.parent_id = Some(int(Segs[2]))
            /\ parsed.child_card = Some(Segs[3])

C7_Witness ==
    /\ Returned
    /\ Len(Segs) = 3
    /\ Len(in_segs) > 3
    /\ parsed.parent_id = Some(12)
    /\ IsSet(parsed.child_card)

\* C8: with red present, filter is its first occurrence with '+' and
\* percent-escapes decoded exactly once, so a name whose own text holds a
\* '%' and two hex digits comes back unchanged.
C8_FilterDecodedOnce ==
    (Returned /\ NonBlank(K_red) # <<>>)
        => parsed.filter = Some(DecodedOnce(NonBlank(K_red)[1][2]))

\* C9: a path with 0, 2, 4 or more non-empty segments raises no error of
\* its own, sets card to the first segment if there is one and leaves
\* parentId and childCard unset; a second segment of two is dropped
\* unparsed, numeric or not.
C9_OtherPathLengths ==
    (pc # "start" /\ Len(Segs) \notin {1, 3}) =>
        /\ pc = "failed" => parsed.at # "parent_id"
        /\ Returned =>
            /\ parsed.card = (IF Len(Segs) >= 1 THEN Some(Segs[1]) ELSE None)
            /\ parsed.parent_id = None
            /\ parsed.child_card = None

C9_Witness ==
    /\ Returned
    /\ Len(Segs) = 2
    /\ ~IntOK(Segs[2])
    /\ IsSet(parsed.card)

\* C10: exactly one card-lookup statement when card or childCard is set
\* and none when both are unset; it names childCard when that is set and
\* card otherwise, and it is the first statement.
C10_OneCardStatementFirst ==
    pc = "done" =>
        IF IsSet(parsed.card) \/ IsSet(parsed.child_card)
        THEN /\ Count(KindCard) = 1
             /\ queries[1].description
                  = <<KindCard>>
                    \o (IF IsSet(parsed.child_card) THEN Val(parsed.child_card)
                        ELSE Val(parsed.card))
                    \o <<"'">>
        ELSE Count(KindCard) = 0

C10_Witness ==
    /\ pc = "done"
    /\ IsSet(parsed.child_card)
    /\ parsed.child_card # parsed.card
    /\ Len(queries) > 1
    /\ Kind(queries[1]) = KindCard

====
